---- MODULE Spec2Model ----
(***************************************************************************)
(* Model of AppComponent (src/src/app/app.component.ts): a bar chart drawn *)
(* into an <svg> element with D3.  The state is the list of children of    *)
(* the svg root in document order; the operations are ngAfterViewInit and  *)
(* updateSvg (with and without an argument).  The D3 calls the component   *)
(* makes (data join by index, enter/append/merge/exit/remove, attr,        *)
(* classed, text, select, scaleBand, scaleLinear.nice, d3.max) are         *)
(* modelled by what they do to that list.  Numbers are exact fractions.    *)
(*                                                                         *)
(* The component's view (the empty <svg id=svgId>) exists from             *)
(* ngAfterViewInit on, which is where Angular first lets the component     *)
(* draw; updateSvg is modelled from then on.                               *)
(***************************************************************************)
EXTENDS Integers, Sequences, FiniteSets, TLC

(***************************************************************************)
(* Bounds of the model.                                                    *)
(***************************************************************************)
\* Longest dataset passed to updateSvg by a caller.
MaxLen == 2
\* Largest decimal exponent searched for the tick step of a linear scale.
MaxExp == 3

(***************************************************************************)
(* Component constants.                                                    *)
(***************************************************************************)
svgWidth == 600
svgHeight == 300
marginLeft == 25
marginRight == 5
marginTop == 5
marginBottom == 15

(***************************************************************************)
(* Evaluation helpers.                                                     *)
(***************************************************************************)
\* F(v), with v evaluated once
With(v, F(_)) == CHOOSE r \in {F(x) : x \in {v}} : TRUE

\* a function on 1..n as a sequence value
ToSeq(f) == f \o << >>

MapSeq(F(_), s) ==
  With(s, LAMBDA t : ToSeq([i \in 1..Len(t) |-> F(t[i])]))

Min(a, b) == IF a < b THEN a ELSE b
Max(a, b) == IF a < b THEN b ELSE a

RECURSIVE Pow10(_)
Pow10(k) == IF k = 0 THEN 1 ELSE 10 * Pow10(k - 1)

(***************************************************************************)
(* Exact fractions standing for JavaScript numbers: [num, den] with        *)
(* den > 0, not necessarily in lowest terms; den = 0 is NaN.  Fractions    *)
(* are compared by value (REq, RLt, RLe), never as records.                *)
(***************************************************************************)
NaN == [num |-> 0, den |-> 0]

Num(n) == [num |-> n, den |-> 1]

IsNaN(a) == a.den = 0

RAdd(a, b) ==
  IF IsNaN(a) \/ IsNaN(b) THEN NaN
  ELSE IF a.den = b.den THEN [num |-> a.num + b.num, den |-> a.den]
  ELSE [num |-> a.num * b.den + b.num * a.den, den |-> a.den * b.den]

RSub(a, b) ==
  IF IsNaN(a) \/ IsNaN(b) THEN NaN
  ELSE IF a.den = b.den THEN [num |-> a.num - b.num, den |-> a.den]
  ELSE [num |-> a.num * b.den - b.num * a.den, den |-> a.den * b.den]

\* comparisons with NaN are false, as in JavaScript
REq(a, b) == ~IsNaN(a) /\ ~IsNaN(b) /\ a.num * b.den = b.num * a.den
RLt(a, b) == ~IsNaN(a) /\ ~IsNaN(b) /\ a.num * b.den < b.num * a.den
RLe(a, b) == ~IsNaN(a) /\ ~IsNaN(b) /\ a.num * b.den <= b.num * a.den

(***************************************************************************)
(* Datum and the datasets.  primary is optional: "undefined" is an absent  *)
(* flag.  Truthy is the boolean coercion classed() applies to it.          *)
(***************************************************************************)
Datum(n, v, p) == [name |-> n, value |-> v, primary |-> p]

Truthy(p) == p = "true"

\* The data ngAfterViewInit draws (names transliterated).
initialData ==
  << Datum("CompetitorA", 53, "undefined"),
     Datum("OurCompany", 72, "true"),
     Datum("CompetitorB", 81, "undefined"),
     Datum("CompetitorC", 69, "undefined"),
     Datum("CompetitorD", 57, "undefined"),
     Datum("CompetitorE", 34, "undefined"),
     Datum("CompetitorF", 13, "undefined") >>

\* The data a caller of updateSvg passes.  A dataset may repeat a datum, so
\* names repeat or are distinct; the values are zero, positive and negative;
\* the flag is false, true and absent.
Datums ==
  { Datum("a", 0, "false"),
    Datum("b", 72, "true"),
    Datum("c", -5, "undefined") }

Datasets == UNION { [1..k -> Datums] : k \in 0..MaxLen }

ValueOf(d) == d.value
NameOf(d) == d.name

(***************************************************************************)
(* d3.max of a non-empty array: the largest value.  (Of an empty array it  *)
(* is undefined; yScale below treats that case.)  Values are integers in   *)
(* this model, so the domain of the linear scale has integer ends.         *)
(***************************************************************************)
d3max(vs) == CHOOSE m \in {vs[i] : i \in 1..Len(vs)} :
               \A i \in 1..Len(vs) : vs[i] <= m

(***************************************************************************)
(* d3.tickIncrement(start, stop, count) for stop > start: a positive       *)
(* result is the step, a negative result -k stands for the step 1/k.       *)
(* With step = (stop - start) / count, power = floor(log10(step)) and      *)
(* error = step / 10^power, the comparisons of error with sqrt(50),        *)
(* sqrt(10) and sqrt(2) are done on squares, in integers.                  *)
(***************************************************************************)
\* power: count * 10^power <= span < count * 10^(power + 1)
TickPower(span, count) ==
  CHOOSE p \in (-MaxExp)..MaxExp :
    IF p >= 0
      THEN count * Pow10(p) <= span /\ span < count * Pow10(p + 1)
      ELSE count <= span * Pow10(-p) /\ span * Pow10(-(p + 1)) < count

\* error^2 >= q  <=>  span^2 >= q * count^2 * 100^power
ErrorAtLeast(q, span, count, power) ==
  IF power >= 0
    THEN span * span >= q * count * count * Pow10(2 * power)
    ELSE span * span * Pow10(-(2 * power)) >= q * count * count

TickFactor(span, count, power) ==
  IF ErrorAtLeast(50, span, count, power) THEN 10
  ELSE IF ErrorAtLeast(10, span, count, power) THEN 5
  ELSE IF ErrorAtLeast(2, span, count, power) THEN 2 ELSE 1

tickIncrement(start, stop, count) ==
  With(TickPower(stop - start, count), LAMBDA power :
    IF power >= 0
      THEN TickFactor(stop - start, count, power) * Pow10(power)
      ELSE -(Pow10(-power) \div TickFactor(stop - start, count, power)))

(***************************************************************************)
(* continuous.nice(count = 10) on the domain [d0, d1] with integer ends.   *)
(* A domain of zero width is left as it is (tickIncrement is -Infinity     *)
(* there and the rounded ends are NaN, which nice discards).  For integer  *)
(* ends and a step 1/k the rounding ceil(x * k) / k is x.                  *)
(***************************************************************************)
FloorTo(x, step) == IF step > 0 THEN (x \div step) * step ELSE x
\* the upper end rounded down, as with Math.floor in place of Math.ceil
CeilToRoundingDown(x, step) == FloorTo(x, step)
CeilTo(x, step) == IF step > 0 THEN (-((-x) \div step)) * step ELSE x

\* one rounding pass of nice on start < stop
NicePass(start, stop) ==
  With(tickIncrement(start, stop, 10), LAMBDA step :
    <<FloorTo(start, step), CeilTo(stop, step)>>)

nice(d0, d1) ==
  IF d0 = d1 THEN <<d0, d1>>
  ELSE With(NicePass(Min(d0, d1), Max(d0, d1)), LAMBDA first :
         With(NicePass(first[1], first[2]), LAMBDA second :
           IF d1 < d0 THEN <<second[2], second[1]>> ELSE second))

(***************************************************************************)
(* yScale: scaleLinear().domain([0, max]).range([285, 5]).nice()           *)
(* For an empty dataset d3.max is undefined and the domain is [0, NaN],    *)
(* which nice() leaves as it is.                                           *)
(***************************************************************************)
yScale(data) ==
  [domain |-> IF Len(data) = 0 THEN <<Num(0), NaN>>
              ELSE With(nice(0, d3max(MapSeq(ValueOf, data))), LAMBDA n :
                     <<Num(n[1]), Num(n[2])>>),
   range |-> <<svgHeight - marginBottom, marginTop>>]

\* normalize(a, b)(x) of d3-scale, for integers a <= b: 1/2 on a domain of
\* zero width
Normalize(a, b, x) ==
  IF b - a = 0 THEN [num |-> 1, den |-> 2]
  ELSE [num |-> x - a, den |-> b - a]

\* interpolateNumber(a, b)(t) = a * (1 - t) + b * t
Interpolate(a, b, t) ==
  [num |-> a * (t.den - t.num) + b * t.num, den |-> t.den]

\* y(v): bimap of d3-scale (a descending domain is turned round together
\* with the range), without clamping
YApply(y, v) ==
  IF IsNaN(y.domain[1]) \/ IsNaN(y.domain[2]) THEN NaN
  ELSE IF y.domain[2].num < y.domain[1].num
    THEN Interpolate(y.range[2], y.range[1],
                     Normalize(y.domain[2].num, y.domain[1].num, v))
    ELSE Interpolate(y.range[1], y.range[2],
                     Normalize(y.domain[1].num, y.domain[2].num, v))

(***************************************************************************)
(* xScale: scaleBand().domain(names).range([25, 595]).padding(0.4)         *)
(* rescale() of d3-scale band.js, with n names, paddingInner =             *)
(* paddingOuter = 4/10, align = 1/2, r0 = 25, r1 = 595:                    *)
(*   step      = (r1 - r0) / max(1, n - 4/10 + 2 * 4/10)                   *)
(*   start     = r0 + (r1 - r0 - step * (n - 4/10)) * 1/2                  *)
(*   bandwidth = step * (1 - 4/10)                                         *)
(* With w = max(10, 10n + 4) these are, over the denominator 2w:           *)
(*   step = 20 (r1 - r0), bandwidth = 12 (r1 - r0),                        *)
(*   start = 2 w r0 + (r1 - r0) (w - (10n - 4)).                           *)
(***************************************************************************)
\* the ordinal domain keeps the first occurrence of every name
Dedup(s) ==
  With(s, LAMBDA t :
    MapSeq(LAMBDA i : t[i],
           SelectSeq([i \in 1..Len(t) |-> i],
                     LAMBDA i : \A j \in 1..(i - 1) : t[j] # t[i])))

paddingTenths == 4

BandScale(domain, r0, r1) ==
  With(Max(10, 10 * Len(domain) - paddingTenths + 2 * paddingTenths),
       LAMBDA w :
    [domain |-> domain,
     den |-> 2 * w,
     start |-> 2 * w * r0
               + (r1 - r0) * (w - (10 * Len(domain) - paddingTenths)),
     step |-> 20 * (r1 - r0),
     bandwidth |-> 2 * (10 - paddingTenths) * (r1 - r0)])

xScale(data) ==
  With(Dedup(MapSeq(NameOf, data)), LAMBDA domain :
    BandScale(domain, marginLeft, svgWidth - marginRight))

\* x.bandwidth()
Bandwidth(x) == [num |-> x.bandwidth, den |-> x.den]

\* x(name) with the bands counted from one
XApplyFromOne(x, name) ==
  IF \A k \in 1..Len(x.domain) : x.domain[k] # name THEN NaN
  ELSE [num |-> x.start
                + x.step * (CHOOSE k \in 1..Len(x.domain) : x.domain[k] = name),
        den |-> x.den]

\* x(name): start + step * (index of name in the domain); undefined for a
\* name not in the domain, and attr() then leaves the node without the
\* attribute
XApply(x, name) ==
  IF \A k \in 1..Len(x.domain) : x.domain[k] # name THEN NaN
  ELSE [num |-> x.start
                + x.step
                  * ((CHOOSE k \in 1..Len(x.domain) : x.domain[k] = name) - 1),
        den |-> x.den]

(***************************************************************************)
(* The document.  The svg root has a list of children in document order:   *)
(*   g.axis            [tag, class, transform, orient, scale, tickSize]    *)
(*   rect              [tag, class, x, y, width, height, data]             *)
(*   foreignObject     [tag, class, x, y, width, height, data, kids]       *)
(* and a foreignObject holds the div that append('xhtml:div') created:     *)
(*   div               [localName, class, text, data]                      *)
(* data is D3's __data__ of the node.  A selection is the sequence of the  *)
(* positions of its nodes among the children.                              *)
(***************************************************************************)
IsRect(e) == e.tag = "rect"
IsForeignObject(e) == e.tag = "foreignObject"
IsAxis(e) == "axis" \in e.class
\* a filter that lets the axis groups of earlier calls stay
KeepsAxis(e) == TRUE
NotAxis(e) == ~IsAxis(e)

\* positions, in document order, of the children the selector finds
Positions(kids, Test(_)) ==
  SelectSeq([i \in 1..Len(kids) |-> i], LAMBDA i : Test(kids[i]))

\* svgRectElements / svgForeignObjectElements: selectAll under the svg root
svgRectElements(kids) == Positions(kids, IsRect)
svgForeignObjectElements(kids) == Positions(kids, IsForeignObject)

\* selection.data(data), the join by index: node i of the selection gets
\* data[i] (update), data beyond the nodes enters, nodes beyond the data
\* exit.  UpdateNodes are the update nodes with their data bound.
UpdateCount(sel, data) == Min(Len(sel), Len(data))

UpdateNodes(kids, sel, data) ==
  ToSeq([i \in 1..UpdateCount(sel, data) |->
           [kids[sel[i]] EXCEPT !.data = data[i]]])

\* the data that enters
EnterData(sel, data) ==
  SubSeq(data, UpdateCount(sel, data) + 1, Len(data))

\* the exit selection short of its first node
ExitPositionsButFirst(sel, data) ==
  {sel[i] : i \in (Len(data) + 2)..Len(sel)}

\* the positions of the nodes that exit
ExitPositions(sel, data) == {sel[i] : i \in (Len(data) + 1)..Len(sel)}

\* the children with the nodes of the selection replaced by `nodes` (the
\* update nodes as they now are)
Replace(kids, sel, nodes) ==
  With(nodes, LAMBDA ns :
    ToSeq([p \in 1..Len(kids) |->
             IF \E i \in 1..Len(ns) : sel[i] = p
               THEN ns[CHOOSE i \in 1..Len(ns) : sel[i] = p]
               ELSE kids[p]]))

\* a remove() that removes nothing
RemoveNothing(kids, positions) == kids

\* selection.remove() of the nodes at the positions
Remove(kids, positions) ==
  With(kids, LAMBDA k :
    MapSeq(LAMBDA p : k[p],
           SelectSeq([p \in 1..Len(k) |-> p], LAMBDA p : p \notin positions)))

\* selection.classed(name, value) on one node
Classed(e, name, value) ==
  [e EXCEPT !.class = IF value THEN @ \cup {name} ELSE @ \ {name}]

\* selection.classed(name, d => Value(d)) on the nodes of a selection
ClassedBy(nodes, name, Value(_)) ==
  MapSeq(LAMBDA e : Classed(e, name, Value(e.data)), nodes)

IsPrimary(d) == Truthy(d.primary)
\* d => d.primary === false: a datum without the flag is not secondary
IsExplicitlyNotPrimary(d) == d.primary = "false"
IsNotPrimary(d) == ~Truthy(d.primary)

\* selection.data(): the data bound to the nodes of a selection
SelectionData(nodes) == MapSeq(LAMBDA e : e.data, nodes)

(***************************************************************************)
(* setSizeAndPositionToRect: x, y, width and height of every node of the   *)
(* selection, from the datum bound to it; data is the dataset the scales   *)
(* are built from.                                                         *)
(***************************************************************************)
Height(yv) == RSub(Num(svgHeight - marginBottom), yv)

SetAttrs(e, x, y) ==
  [e EXCEPT !.x = XApply(x, e.data.name),
            !.y = YApply(y, e.data.value),
            !.width = Bandwidth(x),
            !.height = Height(YApply(y, e.data.value))]

setSizeAndPositionToRect(nodes, data) ==
  With(<<xScale(data), yScale(data)>>, LAMBDA s :
    MapSeq(LAMBDA e : SetAttrs(e, s[1], s[2]), nodes))

NoAttr == NaN

(***************************************************************************)
(* updateAxises: remove every .axis, append the bottom and the left axis.  *)
(***************************************************************************)
AxisGroup(orient, tx, ty, scale, tickSize) ==
  [tag |-> "g", class |-> {"axis"}, transform |-> <<tx, ty>>,
   orient |-> orient, scale |-> scale, tickSize |-> tickSize]

updateAxises(kids, data) ==
  SelectSeq(kids, NotAxis)
    \o << AxisGroup("bottom", 0, svgHeight - marginBottom,
                    xScale(data).domain, 0),
          AxisGroup("left", marginLeft, 0,
                    yScale(data).domain,
                    (-svgWidth) + (marginLeft + marginRight)) >>

(***************************************************************************)
(* updateBars                                                              *)
(***************************************************************************)
NewRect(d) ==
  [tag |-> "rect", class |-> {}, x |-> NoAttr, y |-> NoAttr,
   width |-> NoAttr, height |-> NoAttr, data |-> d]

\* rects.enter().append('rect').merge(rects): the update nodes followed by
\* one new rect per entering datum (appended to the svg root)
MergedRects(kids, rects, data) ==
  UpdateNodes(kids, rects, data) \o MapSeq(NewRect, EnterData(rects, data))

\* setSizeAndPositionToRect(merged) with data defaulting to
\* selection.data(), then the two classed calls
DrawBars(merged) ==
  With(merged, LAMBDA m :
    ClassedBy(
      ClassedBy(setSizeAndPositionToRect(m, SelectionData(m)),
                "primaryBar", IsPrimary),
      "secondaryBar", IsNotPrimary))

\* the children once the update nodes are redrawn, the entered nodes
\* appended and the exit nodes removed
Rejoin(kids, sel, data, nodes) ==
  With(nodes, LAMBDA ns :
    Remove(Replace(kids, sel, SubSeq(ns, 1, UpdateCount(sel, data)))
             \o SubSeq(ns, UpdateCount(sel, data) + 1, Len(ns)),
           ExitPositions(sel, data)))

updateBars(kids, data) ==
  With(svgRectElements(kids), LAMBDA rects :
    Rejoin(kids, rects, data, DrawBars(MergedRects(kids, rects, data))))

(***************************************************************************)
(* updateLabels                                                            *)
(***************************************************************************)
\* append('xhtml:div'): d3.namespace splits the registered prefix off, and
\* the element is created in the XHTML namespace with the local name div
xhtmlDiv == [space |-> "http://www.w3.org/1999/xhtml", local |-> "div"]

\* select('xhtml\\:div'): the escaped colon makes the whole of xhtml:div one
\* identifier, a valid type selector for the element name "xhtml:div"
labelSelector == [valid |-> TRUE, type |-> "xhtml:div"]

\* element.querySelector(selector): the first child the type selector
\* matches, 0 for none
QuerySelector(e, selector) ==
  IF \E k \in 1..Len(e.kids) : e.kids[k].localName = selector.type
    THEN CHOOSE k \in 1..Len(e.kids) :
           /\ e.kids[k].localName = selector.type
           /\ \A j \in 1..(k - 1) : e.kids[j].localName # selector.type
    ELSE 0

\* `${d.value}pts`
LabelText(d) == ToString(d.value) \o "pts"

\* selection.select(selector).text(...) on one node: the child found
\* inherits the node's data and gets the text; nothing happens if none is
SelectAndSetText(e, selector) ==
  IF QuerySelector(e, selector) = 0 THEN e
  ELSE [e EXCEPT !.kids[QuerySelector(e, selector)] =
                   [@ EXCEPT !.data = e.data, !.text = LabelText(e.data)]]

\* .append('xhtml:div').classed(...).text(...) on one entered node
NewDiv(d) ==
  [localName |-> xhtmlDiv.local,
   class |-> {"label"}
             \cup (IF Truthy(d.primary) THEN {"primaryLabel"} ELSE {})
             \cup (IF ~Truthy(d.primary) THEN {"secondaryLabel"} ELSE {}),
   text |-> LabelText(d),
   data |-> d]

AppendDiv(e) == [e EXCEPT !.kids = Append(@, NewDiv(e.data))]

NewForeignObject(d) ==
  [tag |-> "foreignObject", class |-> {}, x |-> NoAttr, y |-> NoAttr,
   width |-> NoAttr, height |-> NoAttr, data |-> d, kids |-> << >>]

\* the update nodes left where the earlier call put them
UnsizedLabels(kids, dataLabels, data) == UpdateNodes(kids, dataLabels, data)

\* the update nodes: setSizeAndPositionToRect(dataLabels, data)
SizedLabels(kids, dataLabels, data) ==
  setSizeAndPositionToRect(UpdateNodes(kids, dataLabels, data), data)

\* ... .select('xhtml\\:div').text(...)
UpdatedLabels(kids, dataLabels, data) ==
  MapSeq(LAMBDA e : SelectAndSetText(e, labelSelector),
         SizedLabels(kids, dataLabels, data))

\* the entered nodes, each with its div
EnteredLabels(dataLabels, data) ==
  MapSeq(AppendDiv,
         setSizeAndPositionToRect(
           MapSeq(NewForeignObject, EnterData(dataLabels, data)), data))

\* querySelector throws a SyntaxError on an invalid selector: select()
\* throws if the selection has a node, and updateLabels ends there
SelectThrows(dataLabels, data) ==
  UpdateCount(dataLabels, data) > 0 /\ ~labelSelector.valid

\* The result is the children and the outcome of the call.
LabelsJoined(kids, dataLabels, data) ==
  IF SelectThrows(dataLabels, data)
    THEN [kids |-> Replace(kids, dataLabels,
                           SizedLabels(kids, dataLabels, data)),
          outcome |-> "error"]
    ELSE [kids |-> Rejoin(kids, dataLabels, data,
                          UpdatedLabels(kids, dataLabels, data)
                            \o EnteredLabels(dataLabels, data)),
          outcome |-> "ok"]

updateLabels(kids, data) ==
  With(svgForeignObjectElements(kids), LAMBDA dataLabels :
    LabelsJoined(kids, dataLabels, data))

(***************************************************************************)
(* updateSvg as a function of the children of the svg root.                *)
(***************************************************************************)
updateSvg(kids, data) ==
  With(updateAxises(kids, data), LAMBDA afterAxes :
    With(updateBars(afterAxes, data), LAMBDA afterBars :
      updateLabels(afterBars, data)))

(***************************************************************************)
(* State.                                                                  *)
(***************************************************************************)
VARIABLES
  children,   \* the children of the svg root, in document order
  viewInit,   \* ngAfterViewInit has run: the svg element is in the document
  lastData,   \* the dataset of the most recent updateSvg call
  argGiven,   \* the most recent updateSvg call passed a dataset
  outcome     \* "ok", or "error" if the most recent call threw

vars == <<children, viewInit, lastData, argGiven, outcome>>

Init ==
  /\ children = << >>
  /\ viewInit = FALSE
  /\ lastData = << >>
  /\ argGiven = FALSE
  /\ outcome = "ok"

\* the body of updateSvg(data)
Draw(data, given) ==
  \E r \in {updateSvg(children, data)} :
    /\ children' = r.kids
    /\ outcome' = r.outcome
    /\ lastData' = data
    /\ argGiven' = given

\* Angular calls ngAfterViewInit once, when the view has been created.
ngAfterViewInit ==
  /\ ~viewInit
  /\ viewInit' = TRUE
  /\ Draw(initialData, TRUE)

\* updateSvg(data)
UpdateSvg ==
  /\ viewInit
  /\ \E data \in Datasets : Draw(ToSeq(data), TRUE)
  /\ UNCHANGED viewInit

\* updateSvg(): data defaults to []
UpdateSvgDefault ==
  /\ viewInit
  /\ Draw(<< >>, FALSE)
  /\ UNCHANGED viewInit

Next == ngAfterViewInit \/ UpdateSvg \/ UpdateSvgDefault

Spec == Init /\ [][Next]_vars

(***************************************************************************)
(* Views of the state the properties are stated on.                        *)
(***************************************************************************)
Bars == SelectSeq(children, IsRect)
Labels == SelectSeq(children, IsForeignObject)
Axes == SelectSeq(children, IsAxis)

\* the positions of the two axis groups; updateAxises puts them after
\* everything drawn by earlier calls and before everything the call adds
AxisPositions == Positions(children, IsAxis)
Reused(p) == \A a \in 1..Len(AxisPositions) : p < AxisPositions[a]
CreatedByLastCall(p) == \A a \in 1..Len(AxisPositions) : p > AxisPositions[a]
BarPositions == Positions(children, IsRect)
LabelPositions == Positions(children, IsForeignObject)

\* the div of the i-th label
LabelDiv(i) == Labels[i].kids[1]

(***************************************************************************)
(* C1: once updateSvg has run, there are as many rect elements and as many *)
(* foreignObject elements under the svg root as the most recent dataset    *)
(* has data.                                                               *)
(***************************************************************************)
C1_ElementCounts ==
  viewInit => /\ Len(Bars) = Len(lastData)
              /\ Len(Labels) = Len(lastData)

\* the chart shrank from the seven initial bars and the last call created
\* a bar next to one it reused
C1_Witness ==
  /\ viewInit
  /\ Len(lastData) < Len(initialData)
  /\ \E i, j \in 1..Len(BarPositions) :
       Reused(BarPositions[i]) /\ CreatedByLastCall(BarPositions[j])

(***************************************************************************)
(* C2: updateSvg() and updateSvg([]) end without an error and leave no bar *)
(* and no label; updateSvg() draws the empty dataset.                      *)
(***************************************************************************)
C2_EmptyChart ==
  /\ (viewInit /\ ~argGiven) => lastData = << >>
  /\ (viewInit /\ lastData = << >>) =>
       /\ outcome = "ok"
       /\ \A p \in 1..Len(children) :
            ~IsRect(children[p]) /\ ~IsForeignObject(children[p])

\* updateSvg() has run on the chart ngAfterViewInit had drawn
C2_Witness == viewInit /\ ~argGiven /\ Len(children) = 2

(***************************************************************************)
(* C3: the i-th bar has the class primaryBar exactly if the i-th datum of  *)
(* the most recent dataset is primary, and secondaryBar exactly if it is   *)
(* not (an absent flag included).                                          *)
(***************************************************************************)
C3_BarClasses ==
  viewInit =>
    \A i \in 1..Len(lastData) :
      /\ i <= Len(Bars)
      /\ ("primaryBar" \in Bars[i].class) <=> Truthy(lastData[i].primary)
      /\ ("secondaryBar" \in Bars[i].class) <=> ~Truthy(lastData[i].primary)

\* a bar drawn as primary by an earlier call (its label still says so) is
\* secondary now, its datum having no flag
C3_Witness ==
  /\ viewInit
  /\ \E i \in 1..Len(lastData) :
       /\ i <= Len(Bars) /\ i <= Len(Labels)
       /\ Reused(BarPositions[i])
       /\ "primaryLabel" \in LabelDiv(i).class
       /\ lastData[i].primary = "undefined"
       /\ "secondaryBar" \in Bars[i].class

(***************************************************************************)
(* C4 (the code departs from it): the i-th label has the class            *)
(* primaryLabel exactly if                                                 *)
(* the i-th datum of the most recent dataset is primary, and               *)
(* secondaryLabel exactly if it is not.                                    *)
(***************************************************************************)
C4_LabelClasses ==
  viewInit =>
    \A i \in 1..Len(lastData) :
      /\ i <= Len(Labels)
      /\ ("primaryLabel" \in LabelDiv(i).class) <=> Truthy(lastData[i].primary)
      /\ ("secondaryLabel" \in LabelDiv(i).class)
           <=> ~Truthy(lastData[i].primary)

(***************************************************************************)
(* C5 (the code departs from it): the text of the i-th label is the value *)
(* of the i-th                                                             *)
(* datum of the most recent dataset followed by pts.                       *)
(***************************************************************************)
C5_LabelTexts ==
  viewInit =>
    \A i \in 1..Len(lastData) :
      i <= Len(Labels) /\ LabelDiv(i).text = LabelText(lastData[i])

(***************************************************************************)
(* C6: once updateSvg has run there are exactly two elements of class      *)
(* axis under the svg root, the bottom axis followed by the left axis.     *)
(***************************************************************************)
C6_TwoAxes ==
  viewInit => /\ Len(Axes) = 2
              /\ Axes[1].orient = "bottom"
              /\ Axes[2].orient = "left"

\* updateSvg has run at least twice
C6_Witness == viewInit /\ lastData # initialData /\ Len(Axes) = 2

(***************************************************************************)
(* C7: if no value of the most recent dataset is negative, every bar has   *)
(* y + height = 285, 0 <= height <= 280 and y >= 5, and a bar for a        *)
(* larger value is not shorter.                                            *)
(***************************************************************************)
NonNegative(data) == \A i \in 1..Len(data) : data[i].value >= 0

C7_BarsInPlotArea ==
  (viewInit /\ NonNegative(lastData)) =>
    /\ \A i \in 1..Len(Bars) :
         /\ REq(RAdd(Bars[i].y, Bars[i].height), Num(svgHeight - marginBottom))
         /\ RLe(Num(0), Bars[i].height)
         /\ RLe(Bars[i].height,
                Num(svgHeight - marginBottom - marginTop))
         /\ RLe(Num(marginTop), Bars[i].y)
    /\ \A i, j \in 1..Len(Bars) :
         Bars[i].data.value <= Bars[j].data.value =>
           RLe(Bars[i].height, Bars[j].height)

\* two bars of different non-negative values, the taller one reaching a
\* domain end that nice() rounded up
C7_Witness ==
  /\ viewInit /\ NonNegative(lastData) /\ lastData # initialData
  /\ \E i, j \in 1..Len(Bars) :
       /\ Bars[i].data.value < Bars[j].data.value
       /\ RLt(Bars[i].height, Bars[j].height)
       /\ RLt(Num(marginTop), Bars[j].y)

(***************************************************************************)
(* C8: if the names of the most recent dataset are pairwise distinct, the  *)
(* bars have one width, lie side by side in the order of the data without  *)
(* overlapping, and lie within [25, 595].                                  *)
(***************************************************************************)
DistinctNames(data) ==
  \A i, j \in 1..Len(data) : data[i].name = data[j].name => i = j

C8_BarsSideBySide ==
  (viewInit /\ DistinctNames(lastData)) =>
    /\ \A i, j \in 1..Len(Bars) : REq(Bars[i].width, Bars[j].width)
    /\ \A i \in 1..(Len(Bars) - 1) :
         /\ RLt(Bars[i].x, Bars[i + 1].x)
         /\ RLe(RAdd(Bars[i].x, Bars[i].width), Bars[i + 1].x)
    /\ \A i \in 1..Len(Bars) :
         /\ RLe(Num(marginLeft), Bars[i].x)
         /\ RLe(RAdd(Bars[i].x, Bars[i].width), Num(svgWidth - marginRight))

\* two bars of distinct names drawn by a caller of updateSvg
C8_Witness ==
  /\ viewInit /\ DistinctNames(lastData) /\ lastData # initialData
  /\ Len(Bars) >= 2

(***************************************************************************)
(* C9: the i-th label has the x, y, width and height of the i-th bar.      *)
(***************************************************************************)
C9_LabelOverBar ==
  viewInit =>
    /\ Len(Labels) = Len(Bars)
    /\ \A i \in 1..Len(Bars) :
         /\ REq(Labels[i].x, Bars[i].x)
         /\ REq(Labels[i].y, Bars[i].y)
         /\ REq(Labels[i].width, Bars[i].width)
         /\ REq(Labels[i].height, Bars[i].height)

\* a label the last call reused next to one it created
C9_Witness ==
  /\ viewInit
  /\ \E i, j \in 1..Len(LabelPositions) :
       Reused(LabelPositions[i]) /\ CreatedByLastCall(LabelPositions[j])

(***************************************************************************)
(* C10 (the code departs from it): the children of the svg root are those *)
(* a single                                                                *)
(* updateSvg of the most recent dataset draws on a chart never drawn on.   *)
(***************************************************************************)
C10_DependsOnLastDataOnly ==
  viewInit => children = updateSvg(<< >>, lastData).kids

====
